---- MODULE Spec2Model ----
(***************************************************************************)
(* A model of cooltools/cli/call_compartments.py: the call_compartments    *)
(* command.  The command is a straight-line script; the model follows it   *)
(* statement block by statement block, the variable pc holding the         *)
(* position of the run.  The files the run reads (the cooler, the          *)
(* reference track, the regions file) are drawn from small sets at the     *)
(* moment the script reads them; the values of the command line are drawn  *)
(* in Init.                                                                *)
(***************************************************************************)
EXTENDS Integers, Sequences, FiniteSets, TLC

\* ------------------------------------------------------------------ bounds
\* The longest reference-track file (data rows) and regions file (rows).
MaxTrackRows == 2
MaxRegions == 2

\* ------------------------------------------------------- program constants
\* --n-eigs default (line 38) and the default column index of the
\* reference-track option (line 17).
N_EIGS_DEFAULT == 3
DEFAULT_COLUMN_INDEX == 3

\* Python's None as the value of track_name, a NaN cell of a merged table.
NoName == "<None>"
NaN == "NaN"

\* ------------------------------------------------------------- the inputs
\* The coolers a run may open: the bin table and the chromosome sizes.
Coolers ==
  { [bins |-> << [chrom |-> "chr1", start |-> 0, end |-> 10],
                 [chrom |-> "chr1", start |-> 10, end |-> 20],
                 [chrom |-> "chr2", start |-> 0, end |-> 10] >>,
     chromsizes |-> [c \in {"chr1", "chr2"} |-> IF c = "chr1" THEN 20 ELSE 10]],
    [bins |-> << [chrom |-> "chr1", start |-> 0, end |-> 10],
                 [chrom |-> "chr1", start |-> 10, end |-> 20] >>,
     chromsizes |-> [c \in {"chr1"} |-> 20]] }

\* The header rows sniff_for_header may find in a reference-track file.
Headers ==
  { <<"chrom", "start", "end", "value">>,
    <<"chrom", "start", "end", "value", "extra">> }

\* The widest header, and the column count of a reference-track file
\* without a header.
MaxWidth == CHOOSE n \in {Len(h) : h \in Headers} : \A h \in Headers : Len(h) <= n

HeaderlessWidths == {MaxWidth}

\* The (path, col) pairs TabularFilePath hands over: col is an integer or a
\* name.  DEFAULT_COLUMN_INDEX is the integer of a path given without column.
IntSelectors ==
  {[isint |-> TRUE, idx |-> i, name |-> ""] :
     i \in ((0 - (MaxWidth + 1)) .. MaxWidth) \cup {DEFAULT_COLUMN_INDEX}}

NameSelectors ==
  {[isint |-> FALSE, idx |-> 0, name |-> n] :
     n \in {"value", "extra", "start", "nope"}}

Selectors == IntSelectors \cup NameSelectors

\* The data rows of a reference-track file: coordinates and the cell of
\* the column the run selects.  Two rows share chr1:0-10; chr3 is no bin.
TrackRowPool ==
  { [chrom |-> "chr1", start |-> 0, end |-> 10, val |-> "1.0"],
    [chrom |-> "chr1", start |-> 0, end |-> 10, val |-> "2.0"],
    [chrom |-> "chr3", start |-> 0, end |-> 10, val |-> "1.0"] }

SeqsUpTo(S, n) == UNION {[1..k -> S] : k \in 0..n}

TrackFiles == SeqsUpTo(TrackRowPool, MaxTrackRows)

\* The rows of a regions file; the fourth column is read only when the file
\* has four columns.
RegionRowPool ==
  { [chrom |-> "chr1", start |-> 0, end |-> 10, name |-> "a"],
    [chrom |-> "chr2", start |-> 0, end |-> 10, name |-> "b"],
    [chrom |-> "chr3", start |-> 0, end |-> 10, name |-> "c"] }

RegionFiles ==
  {[ncols |-> n, rows |-> r] :
     n \in {2, 3, 4, 5}, r \in (SeqsUpTo(RegionRowPool, MaxRegions) \ {<<>>})}

VARIABLES
  pc,                \* position of the run in the script
  reference_track,   \* --reference-track: [given, col]
  regions,           \* TRUE when --regions names a file
  contact_type,      \* --contact-type
  n_eigs,            \* --n-eigs
  bigwig,            \* --bigwig
  clr,               \* the opened cooler
  names,             \* what sniff_for_header found in the track file
  track_name,        \* the reference column name
  usecols,           \* the usecols argument of pd.read_table
  track_df,          \* the parsed reference track: [cols, rows]
  track,             \* the merged bin/track table
  regions_file,      \* the regions file as read by pd.read_csv
  cis_regions_table, \* the regions table
  calls,             \* the calls made to eigdecomp, in order
  written,           \* the output files written, in order
  error              \* the exception the run ended with, "" for none

vars ==
  << pc, reference_track, regions, contact_type, n_eigs, bigwig, clr, names,
     track_name, usecols, track_df, track, regions_file, cis_regions_table,
     calls, written, error >>

options == << reference_track, regions, contact_type, n_eigs, bigwig >>

NoCooler == [bins |-> <<>>, chromsizes |-> <<>>]
NoTable == [cols |-> {}, rows |-> <<>>]
NoFile == [ncols |-> 0, rows |-> <<>>]

Init ==
  /\ pc = "open"
  /\ reference_track \in
       {[given |-> FALSE, col |-> [isint |-> TRUE, idx |-> 0, name |-> ""]]}
         \cup {[given |-> TRUE, col |-> s] : s \in Selectors}
  /\ regions \in BOOLEAN
  /\ contact_type \in {"cis", "trans"}
  /\ n_eigs \in {1, N_EIGS_DEFAULT}
  /\ bigwig \in BOOLEAN
  /\ clr = NoCooler
  /\ names = [state |-> "unread", cols |-> <<>>, width |-> 0]
  /\ track_name = NoName
  /\ usecols = <<>>
  /\ track_df = NoTable
  /\ track = <<>>
  /\ regions_file = NoFile
  /\ cis_regions_table = <<>>
  /\ calls = <<>>
  /\ written = <<>>
  /\ error = ""

\* An exception leaves the command: nothing after the raise runs.
Raise(e) == pc' = "error" /\ error' = e

\* ---------------------------------------------------------------- line 85
\* COOL_PATH names a readable cooler: the runs modelled are those that get
\* past this line.
OpenCooler ==
  /\ pc = "open"
  /\ \E c \in Coolers : clr' = c
  /\ pc' = "start"
  /\ UNCHANGED << options, names, track_name, usecols, track_df, track,
                  regions_file, cis_regions_table, calls, written, error >>

\* ------------------------------------------------------------ lines 87-126
\* names[col] of a Python list: an index from -len to len-1 is answered, the
\* negative ones counting from the end; any other raises IndexError.
PyIndexOk(seq, i) == (0 - Len(seq)) <= i /\ i < Len(seq)

PyIndex(seq, i) == IF i >= 0 THEN seq[i + 1] ELSE seq[Len(seq) + i + 1]

InHeader(cols, n) == \E k \in 1..Len(cols) : cols[k] = n

\* What sniff_for_header may return for the track file: no header (names is
\* None) over a file of some width, or a header row.
SniffOutcomes ==
  {[state |-> "None", cols |-> <<>>, width |-> w] : w \in HeaderlessWidths}
    \cup {[state |-> "header", cols |-> h, width |-> Len(h)] : h \in Headers}

\* Line 95 with the isinstance test dropped, and with the test inverted.
HeaderlessOk_Any(col) == TRUE

HeaderlessOk_Inverted(col) == ~col.isint

\* Line 95: without a header only an integer selector is accepted.
HeaderlessOk(col) == col.isint

\* Lines 108-123: with a header an integer selector must index the header,
\* a name selector must occur in it.
HeaderOk(cols, col) ==
  IF col.isint THEN PyIndexOk(cols, col.idx) ELSE InHeader(cols, col.name)

\* Lines 110 and 125: the column name the selector resolves to.
ResolveName(cols, col) ==
  IF col.isint THEN PyIndex(cols, col.idx) ELSE col.name

\* Line 126 reading the fourth column of the file whatever was asked.
HeaderUsecols_Fourth(name) == <<"chrom", "start", "end", "value">>

\* Line 126: usecols of the read with a header.
HeaderUsecols(name) == <<"chrom", "start", "end", name>>

\* Line 104: usecols of the read without a header.
HeaderlessUsecols(col) == <<0, 1, 2, col.idx>>

ResolveColumn ==
  /\ pc = "start"
  /\ reference_track.given
  /\ \E found \in SniffOutcomes :
       LET col == reference_track.col IN
       /\ names' = found
       /\ IF found.state = "None"
            THEN IF ~HeaderlessOk(col)
                   THEN /\ Raise("BadParameter")
                        /\ UNCHANGED << track_name, usecols >>
                   ELSE /\ track_name' = "ref"
                        /\ usecols' = HeaderlessUsecols(col)
                        /\ pc' = "read"
                        /\ error' = error
            ELSE IF ~HeaderOk(found.cols, col)
                   THEN /\ Raise("BadParameter")
                        /\ UNCHANGED << track_name, usecols >>
                   ELSE /\ track_name' = ResolveName(found.cols, col)
                        /\ usecols' = HeaderUsecols(ResolveName(found.cols, col))
                        /\ pc' = "read"
                        /\ error' = error
  /\ UNCHANGED << options, clr, track_df, track, regions_file,
                  cis_regions_table, calls, written >>

\* ----------------------------------------------------------- lines 128-139
Range(seq) == {seq[k] : k \in 1..Len(seq)}

CoordCols == {"chrom", "start", "end"}

Coords(rows) ==
  [k \in 1..Len(rows) |->
     [chrom |-> rows[k].chrom, start |-> rows[k].start, end |-> rows[k].end]]

\* pd.read_table with header="infer": usecols is a set of column names, so
\* a name listed twice selects one column; the dtype given last for a name
\* wins, so a track column named chrom is read as float64, which no
\* chromosome name is.
ReadWithHeader(rows) ==
  IF track_name = "chrom" /\ rows # <<>>
    THEN {[ok |-> FALSE, df |-> NoTable]}
    ELSE IF track_name \in CoordCols
           THEN {[ok |-> TRUE,
                  df |-> [cols |-> Range(usecols), rows |-> Coords(rows)]]}
           ELSE {[ok |-> TRUE, df |-> [cols |-> Range(usecols), rows |-> rows]]}

\* pd.read_table with header=None: the fourth column read is column col of
\* the file.  For a col that is no value column of the file (negative, a
\* coordinate column, past the last column) pandas either rejects the read
\* or returns the coordinate columns alone, depending on its version.
ReadHeaderless(rows) ==
  IF usecols[4] \in 3..(names.width - 1)
    THEN {[ok |-> TRUE,
           df |-> [cols |-> CoordCols \cup {track_name}, rows |-> rows]]}
    ELSE {[ok |-> FALSE, df |-> NoTable],
          [ok |-> TRUE, df |-> [cols |-> CoordCols, rows |-> Coords(rows)]]}

ReadTable ==
  /\ pc = "read"
  /\ \E rows \in TrackFiles :
       /\ names.state = "None" => rows # <<>>
       /\ \E r \in (IF names.state = "None"
                      THEN ReadHeaderless(rows) ELSE ReadWithHeader(rows)) :
            IF r.ok
              THEN /\ track_df' = r.df
                   /\ pc' = "merge"
                   /\ error' = error
              ELSE /\ Raise("LibraryError")
                   /\ track_df' = track_df
  /\ UNCHANGED << options, clr, names, track_name, usecols, track,
                  regions_file, cis_regions_table, calls, written >>

\* ----------------------------------------------------------- lines 144-155
SameBin(a, b) == a.chrom = b.chrom /\ a.start = b.start /\ a.end = b.end

\* The rows a left merge makes of one bin: one per track row on the bin, in
\* the track's order, or the bin alone with an empty cell.
RECURSIVE Matches(_, _, _)
Matches(bin, rows, hasval) ==
  IF rows = <<>> THEN <<>>
  ELSE (IF SameBin(bin, Head(rows))
          THEN << IF hasval
                    THEN [chrom |-> bin.chrom, start |-> bin.start,
                          end |-> bin.end, val |-> Head(rows).val]
                    ELSE bin >>
          ELSE <<>>) \o Matches(bin, Tail(rows), hasval)

Unmatched(bin, hasval) ==
  IF hasval
    THEN [chrom |-> bin.chrom, start |-> bin.start, end |-> bin.end, val |-> NaN]
    ELSE bin

\* pd.merge(left=bins, right=track_df, how="left", on=[chrom, start, end]).
RECURSIVE Merge(_, _)
Merge(bins, df) ==
  IF bins = <<>> THEN <<>>
  ELSE LET hasval == df.cols # CoordCols
           m == Matches(Head(bins), df.rows, hasval)
       IN (IF m = <<>> THEN << Unmatched(Head(bins), hasval) >> ELSE m)
            \o Merge(Tail(bins), df)

\* Lines 151-155: the ValueError is constructed and dropped, not raised.
MergeCheckRaises(merged, bins) == FALSE

MergeTrack ==
  /\ pc = "merge"
  /\ LET merged == Merge(clr.bins, track_df) IN
       IF MergeCheckRaises(merged, clr.bins)
         THEN /\ Raise("ValueError")
              /\ track' = track
         ELSE /\ track' = merged
              /\ pc' = "regions"
              /\ error' = error
  /\ UNCHANGED << options, clr, names, track_name, usecols, track_df,
                  regions_file, cis_regions_table, calls, written >>

\* ----------------------------------------------------------- lines 156-159
UseBins ==
  /\ pc = "start"
  /\ ~reference_track.given
  /\ track' = clr.bins
  /\ track_name' = NoName
  /\ pc' = "regions"
  /\ UNCHANGED << options, clr, names, usecols, track_df, regions_file,
                  cis_regions_table, calls, written, error >>

\* ----------------------------------------------------------- lines 161-195
\* track["chrom"].unique(): the chromosomes of the table, each once, in the
\* order of first appearance.
RECURSIVE Unique(_, _)
Unique(rows, seen) ==
  IF rows = <<>> THEN <<>>
  ELSE IF Head(rows).chrom \in seen
         THEN Unique(Tail(rows), seen)
         ELSE << Head(rows).chrom >>
                \o Unique(Tail(rows), seen \cup {Head(rows).chrom})

TrackChroms(table) == Unique(table, {})

\* Lines 166-167: bioframe.parse_regions of a list of chromosome names makes
\* one whole-chromosome region each; the name column is then set to chrom.
WholeChromosomes(chroms, chromsizes) ==
  [k \in 1..Len(chroms) |->
     [chrom |-> chroms[k], start |-> 0, end |-> chromsizes[chroms[k]],
      name |-> chroms[k]]]

DefaultRegions ==
  /\ pc = "regions"
  /\ ~regions
  /\ cis_regions_table' = WholeChromosomes(TrackChroms(track), clr.chromsizes)
  /\ pc' = "call"
  /\ UNCHANGED << options, clr, names, track_name, usecols, track_df, track,
                  regions_file, calls, written, error >>

\* Line 169 with the refusal missing.
RegionsUnsupported_Never(ct) == FALSE

\* Line 169: regions are refused for trans contacts.
RegionsUnsupported(ct) == ct = "trans"

RegionsWithTrans ==
  /\ pc = "regions"
  /\ regions
  /\ RegionsUnsupported(contact_type)
  /\ Raise("NotImplementedError")
  /\ UNCHANGED << options, clr, names, track_name, usecols, track_df, track,
                  regions_file, cis_regions_table, calls, written >>

\* Line 176: the column counts a regions file may have.
RegionColumnsOk(ncols) == ncols \in {3, 4}

Digits(n) ==
  CASE n = 0 -> "0" [] n = 10 -> "10" [] n = 20 -> "20" [] OTHER -> "?"

\* Lines 181-190: bioframe.parse_regions of a table keeps the rows and their
\* order; a table without a name column gets the name chrom:start-end.
ParseRegions(file) ==
  [k \in 1..Len(file.rows) |->
     LET r == file.rows[k] IN
     [chrom |-> r.chrom, start |-> r.start, end |-> r.end,
      name |-> IF file.ncols = 4
                 THEN r.name
                 ELSE r.chrom \o ":" \o Digits(r.start) \o "-" \o Digits(r.end)]]

\* Line 194 keeping every region.
IsIn_Always(c, chroms) == TRUE

\* Line 194: Series.isin.
IsIn(c, chroms) == c \in Range(chroms)

\* Lines 193-195: the rows on a chromosome of the track, reindexed.
RECURSIVE FilterRegions(_, _)
FilterRegions(table, chroms) ==
  IF table = <<>> THEN <<>>
  ELSE (IF IsIn(Head(table).chrom, chroms) THEN << Head(table) >> ELSE <<>>)
         \o FilterRegions(Tail(table), chroms)

\* Line 174 binds the header of the regions file to the local name "names"
\* again; nothing reads it afterwards, and the model keeps in names what the
\* track file was found to hold.
ReadRegions ==
  /\ pc = "regions"
  /\ regions
  /\ ~RegionsUnsupported(contact_type)
  /\ \E file \in RegionFiles :
       /\ regions_file' = file
       /\ IF ~RegionColumnsOk(file.ncols)
            THEN /\ Raise("ValueError")
                 /\ cis_regions_table' = cis_regions_table
            ELSE /\ cis_regions_table' =
                      FilterRegions(ParseRegions(file), TrackChroms(track))
                 /\ pc' = "call"
                 /\ error' = error
  /\ UNCHANGED << options, clr, names, track_name, usecols, track_df, track,
                  calls, written >>

\* ----------------------------------------------------------- lines 197-216
\* Lines 199-207 passing the default of --n-eigs instead of the option.
CisCall_DefaultEigs ==
  [fn |-> "cooler_cis_eig", bins |-> track, regions |-> cis_regions_table,
   n_eigs |-> N_EIGS_DEFAULT, phasing_track_col |-> track_name]

\* The keyword arguments of eigdecomp.cooler_cis_eig (lines 199-207).
CisCall ==
  [fn |-> "cooler_cis_eig", bins |-> track, regions |-> cis_regions_table,
   n_eigs |-> n_eigs, phasing_track_col |-> track_name]

\* The keyword arguments of eigdecomp.cooler_trans_eig (lines 209-216).
TransCall ==
  [fn |-> "cooler_trans_eig", bins |-> track, n_eigs |-> n_eigs,
   phasing_track_col |-> track_name]

\* The routine returns its two tables or raises; the exception propagates.
Returned ==
  \/ pc' = "write_lam" /\ error' = error
  \/ Raise("AnalysisError")

CallCis ==
  /\ pc = "call"
  /\ contact_type = "cis"
  /\ calls' = Append(calls, CisCall)
  /\ Returned
  /\ UNCHANGED << options, clr, names, track_name, usecols, track_df, track,
                  regions_file, cis_regions_table, written >>

CallTrans ==
  /\ pc = "call"
  /\ contact_type = "trans"
  /\ calls' = Append(calls, TransCall)
  /\ Returned
  /\ UNCHANGED << options, clr, names, track_name, usecols, track_df, track,
                  regions_file, cis_regions_table, written >>

\* ----------------------------------------------------------- lines 218-229
\* The output path with the contact type fixed to the default.
OutPath_Cis(ct, ext) == "out_prefix" \o "." \o "cis" \o "." \o ext

\* out_prefix + "." + contact_type + "." + extension.
OutPath(ct, ext) == "out_prefix" \o "." \o ct \o "." \o ext

\* Line 219 writing the eigenvector file in place of the eigenvalue file.
WriteEigvals_Swapped ==
  /\ pc = "write_lam"
  /\ written' = Append(written, OutPath(contact_type, "vecs.tsv"))
  /\ pc' = "write_vecs"
  /\ UNCHANGED << options, clr, names, track_name, usecols, track_df, track,
                  regions_file, cis_regions_table, calls, error >>

WriteEigvals ==
  /\ pc = "write_lam"
  /\ written' = Append(written, OutPath(contact_type, "lam.txt"))
  /\ pc' = "write_vecs"
  /\ UNCHANGED << options, clr, names, track_name, usecols, track_df, track,
                  regions_file, cis_regions_table, calls, error >>

\* Line 223: the bigwig is written when the flag is set.
WantsBigwig(flag) == flag

WriteEigvecs ==
  /\ pc = "write_vecs"
  /\ written' = Append(written, OutPath(contact_type, "vecs.tsv"))
  /\ pc' = IF WantsBigwig(bigwig) THEN "write_bw" ELSE "done"
  /\ UNCHANGED << options, clr, names, track_name, usecols, track_df, track,
                  regions_file, cis_regions_table, calls, error >>

WriteBigwig ==
  /\ pc = "write_bw"
  /\ written' = Append(written, OutPath(contact_type, "bw"))
  /\ pc' = "done"
  /\ UNCHANGED << options, clr, names, track_name, usecols, track_df, track,
                  regions_file, cis_regions_table, calls, error >>

Next ==
  \/ OpenCooler
  \/ ResolveColumn
  \/ ReadTable
  \/ MergeTrack
  \/ UseBins
  \/ DefaultRegions
  \/ RegionsWithTrans
  \/ ReadRegions
  \/ CallCis
  \/ CallTrans
  \/ WriteEigvals
  \/ WriteEigvecs
  \/ WriteBigwig

Spec == Init /\ [][Next]_vars
\* =================================================================== claims
TrackLoaded == track # <<>>

ChromSet(table) == {table[k].chrom : k \in 1..Len(table)}

LamPath == "out_prefix." \o contact_type \o ".lam.txt"
VecsPath == "out_prefix." \o contact_type \o ".vecs.tsv"
BwPath == "out_prefix." \o contact_type \o ".bw"

\* C1 as stated: a run with a regions file and contact type trans ends in
\* the not-implemented error, calls neither routine and writes no file.
C1_Original ==
  (regions /\ contact_type = "trans") =>
    /\ pc \notin {"call", "write_lam", "write_vecs", "write_bw", "done"}
    /\ calls = <<>>
    /\ written = <<>>
    /\ pc = "error" => error = "NotImplementedError"

\* C1 amended: such a run never calls a routine and never writes a file; it
\* ends in the not-implemented error when the reference track, if one is
\* given, has been loaded, and in the loader's own error (BadParameter, or
\* the parser's) when loading the reference track fails first.
C1_Amended ==
  (regions /\ contact_type = "trans") =>
    /\ pc \notin {"call", "write_lam", "write_vecs", "write_bw", "done"}
    /\ calls = <<>>
    /\ written = <<>>
    /\ (pc = "error" /\ TrackLoaded) => error = "NotImplementedError"
    /\ (pc = "error" /\ error # "NotImplementedError") =>
         /\ ~TrackLoaded
         /\ reference_track.given
         /\ error \in {"BadParameter", "LibraryError"}

C1_Witness ==
  /\ regions
  /\ contact_type = "trans"
  /\ reference_track.given
  /\ TrackLoaded
  /\ error = "NotImplementedError"

\* C2: the merged table handed to the analysis routine has no more rows
\* than the cooler has bins.
C2_RowCount ==
  \A k \in 1..Len(calls) : Len(calls[k].bins) <= Len(clr.bins)

\* C3: for a track file without a header the loader gets past the column
\* check only with an integer selector; with a name selector the run ends in
\* BadParameter with nothing parsed and nothing merged.
C3_HeaderlessInteger ==
  names.state = "None" =>
    /\ (usecols # <<>> \/ track_df # NoTable \/ TrackLoaded) =>
         reference_track.col.isint
    /\ ~reference_track.col.isint =>
         /\ pc = "error"
         /\ error = "BadParameter"
         /\ usecols = <<>>
         /\ track_df = NoTable
         /\ ~TrackLoaded
         /\ calls = <<>>

C3_Witness ==
  /\ names.state = "None"
  /\ ~reference_track.col.isint
  /\ error = "BadParameter"

\* C4 as stated: an integer selector on a track file without a header ends
\* in BadParameter.
C4_Original ==
  (names.state = "None" /\ reference_track.col.isint) =>
    (pc = "error" /\ error = "BadParameter")

\* C4 amended: on a track file without a header the run ends in
\* BadParameter exactly when the selector is a name, not an integer.
C4_Amended ==
  names.state = "None" =>
    ((error = "BadParameter") <=> ~reference_track.col.isint)

C4_Witness ==
  /\ names.state = "None"
  /\ reference_track.col.isint
  /\ TrackLoaded
  /\ error = ""

\* C5: with a header of n columns an integer selector outside 0..n-1 ends
\* in BadParameter and is never resolved to a column name.
C5_OutOfRange ==
  ( /\ names.state = "header"
    /\ reference_track.col.isint
    /\ reference_track.col.idx \notin 0..(Len(names.cols) - 1) ) =>
    /\ pc = "error"
    /\ error = "BadParameter"
    /\ track_name = NoName

\* C6 as stated: with a header holding the requested name the loader
\* selects exactly four columns, chrom, start, end and the requested one,
\* and the requested name is the reference column passed to the analysis.
C6_Original ==
  ( /\ names.state = "header"
    /\ ~reference_track.col.isint
    /\ InHeader(names.cols, reference_track.col.name) ) =>
    /\ usecols = <<"chrom", "start", "end", reference_track.col.name>>
    /\ Cardinality(Range(usecols)) = 4
    /\ track_df # NoTable => track_df.cols = Range(usecols)
    /\ \A k \in 1..Len(calls) :
         calls[k].phasing_track_col = reference_track.col.name

\* C6 amended: the loader selects chrom, start, end and the requested
\* column, which are four columns unless the requested name is itself one of
\* chrom, start, end and then three; the requested name is the reference
\* column passed to the analysis.
C6_Amended ==
  ( /\ names.state = "header"
    /\ ~reference_track.col.isint
    /\ InHeader(names.cols, reference_track.col.name) ) =>
    /\ usecols = <<"chrom", "start", "end", reference_track.col.name>>
    /\ Cardinality(Range(usecols)) =
         (IF reference_track.col.name \in {"chrom", "start", "end"}
            THEN 3 ELSE 4)
    /\ track_df # NoTable => track_df.cols = Range(usecols)
    /\ \A k \in 1..Len(calls) :
         calls[k].phasing_track_col = reference_track.col.name

C6_Witness ==
  /\ names.state = "header"
  /\ ~reference_track.col.isint
  /\ reference_track.col.name = "extra"
  /\ Cardinality(track_df.cols) = 4
  /\ Len(calls) = 1

\* C7: a run that completes has written the eigenvalue and eigenvector
\* files of its contact type, the bigwig file exactly when the flag is set,
\* each once and nothing else.
C7_Outputs ==
  pc = "done" =>
    /\ Range(written) =
         {LamPath, VecsPath} \cup (IF bigwig THEN {BwPath} ELSE {})
    /\ Len(written) = Cardinality(Range(written))

C7_Witness ==
  /\ pc = "done"
  /\ contact_type = "trans"
  /\ bigwig
  /\ Len(written) = 3

\* C8: at most one call is made; cis calls the cis routine with the merged
\* table, the regions table, n_eigs and the reference column; trans calls
\* the trans routine with the same but no regions; the reference column is
\* None exactly when no reference track was given.
C8_Dispatch ==
  /\ Len(calls) <= 1
  /\ \A k \in 1..Len(calls) :
       LET c == calls[k] IN
       /\ IF contact_type = "cis"
            THEN /\ c.fn = "cooler_cis_eig"
                 /\ "regions" \in DOMAIN c
                 /\ c.regions = cis_regions_table
            ELSE /\ c.fn = "cooler_trans_eig"
                 /\ "regions" \notin DOMAIN c
       /\ c.bins = track
       /\ c.n_eigs = n_eigs
       /\ c.phasing_track_col = track_name
       /\ (c.phasing_track_col = NoName) <=> ~reference_track.given

C8_Witness ==
  /\ Len(calls) = 1
  /\ contact_type = "cis"
  /\ reference_track.given
  /\ n_eigs = 1
  /\ pc = "done"

\* C9: the regions passed to the cis routine lie on chromosomes of the
\* merged table; without a regions file they are one whole-chromosome
\* region per chromosome of the table, named by it; with a regions file
\* they are the supplied regions on chromosomes of the table, in the
\* supplied order.
C9_Regions ==
  \A k \in 1..Len(calls) :
    calls[k].fn = "cooler_cis_eig" =>
      LET R == calls[k].regions
          chroms == ChromSet(calls[k].bins)
          OnTrack(r) == r.chrom \in chroms
      IN /\ \A i \in 1..Len(R) : R[i].chrom \in chroms
         /\ ~regions =>
              /\ Len(R) = Cardinality(chroms)
              /\ ChromSet(R) = chroms
              /\ \A i \in 1..Len(R) :
                   /\ R[i].name = R[i].chrom
                   /\ R[i].start = 0
                   /\ R[i].end = clr.chromsizes[R[i].chrom]
         /\ regions =>
              /\ regions_file.ncols \in {3, 4}
              /\ Coords(R) = SelectSeq(Coords(regions_file.rows), OnTrack)
              /\ regions_file.ncols = 4 =>
                   R = SelectSeq(regions_file.rows, OnTrack)

C9_Witness ==
  /\ regions
  /\ Len(calls) = 1
  /\ Len(regions_file.rows) = 2
  /\ Len(calls[1].regions) = 1
  /\ regions_file.rows[1].chrom = "chr3"

\* C10: a file is written only after the one analysis call has returned,
\* so a run that ended in an error has written nothing; the files appear in
\* the order eigenvalues, eigenvectors, bigwig.
C10_WriteOrder ==
  /\ written # <<>> =>
       /\ Len(calls) = 1
       /\ pc \in {"write_vecs", "write_bw", "done"}
       /\ error = ""
  /\ pc = "error" => written = <<>>
  /\ Len(written) <= 3
  /\ \A k \in 1..Len(written) : written[k] = <<LamPath, VecsPath, BwPath>>[k]

C10_Witness ==
  /\ pc = "error"
  /\ error = "AnalysisError"
  /\ Len(calls) = 1
  /\ written = <<>>
====
